---- MODULE Spec2Model ----
(***************************************************************************)
(* Model of firefly's concurrent fetch -> tokenize -> aggregate -> rank    *)
(* pipeline: the locator feed (articles.ListFromFile), the worker pool and *)
(* merge stage (processing.Counter.CountTopWords / processURL), the        *)
(* per-domain permit pools of the fetch client (articles.Source.Fetch /    *)
(* getDomainSemaphore) and the top-K selector (processing.pickTop).        *)
(*                                                                         *)
(* Go's channel operations are modelled as the runtime performs them: a    *)
(* goroutine that reaches a select polls its cases; when at least one can  *)
(* proceed one of those is chosen (any of them), otherwise the goroutine   *)
(* parks.  A parked goroutine is completed by the goroutine that makes one *)
(* of its cases ready (a partner's send/receive, a close, the closing of   *)
(* ctx.Done()), which decides the case it resumes with.                    *)
(***************************************************************************)
EXTENDS Integers, Sequences, FiniteSets, TLC

\* ------------------------------------------------------------------ bounds
MaxWorkers == 2
MaxWork == 6
OutBuf == 1
ConcurrencyPerDomain == 1
QueueFactor == 2
TopN == 2
MaxCount == 2
MaxTokenLen == 4
WordBits == 9
Second == 2
MaxWait == 5
MaxAttempt == 10
MaxRetry == 2

\* ------------------------------------------------------------------ state
VARIABLES
    rev,               \* revision of ListFromFile feeding urlCh: "unbuffered" | "buffered"
    workers,           \* Counter.workers
    cancelled,         \* ctx.Done() is closed
    feedPc, feedIdx, feedLine,       \* the ListFromFile goroutine
    out, outClosed,                  \* its output channel (urlCh): buffer, closed
    wpc, wurl, wsem, wres, wlocal,   \* the worker goroutines
    domainSemaphores, mu, readers, pools,   \* Source: registry, its lock (the writer,
                                     \* the readers), the permit pools
    countsCh, countsClosed,          \* handoff queue: buffer, closed
    wg, successes, failures,
    mpc, mpartial, globalCounts, doneMerge,   \* the merge goroutine
    opc, topCounts,                  \* CountTopWords itself
    delivered, emitted, produced, succeeded, sent, fetchFailed,   \* history
    topN, words,                     \* CountTopWords' topN, Validator.words
    vpc, vtoken, valid,              \* a call of Validator.Validate and its result
    bpc, waitMin, waitMax, attemptNum, resp, wait,  \* a call of Backoff and its result
    dpc, iter, retryMax, seen, doErr,   \* the retry loop of one s.client.Do
    apc, runErr, written, lidx,         \* App.Run, and the line wordbank.Load is at
    alloc, wref, handed, lateWrite      \* the maps made by processURL: how many, the one
                                        \* each worker's local refers to, those handed
                                        \* off, those written by a worker after that

\* ------------------------------------------------------- text and tokens
EmptyMap == <<>>

WordChars == {"a", "b", "c", "d", "x", "y", "z"}

\* the word bank of the run
WordBank == {<<"a", "b", "c">>, <<"b", "c", "d">>, <<"a", "b">>, <<"c", "a", "b">>}

\* the file the word bank is loaded from: a word to a line, blanks around some
BankFile == << <<"a", "b", "c">>,
              <<" ", "b", "c", "d">>,
              <<" ">>,
              <<"a", "b", " ">>,
              <<"c", "a", "b">>,
              <<"a", "b", "c">> >>

\* the article list: each line is a sequence of cells, a blank (" ") or a locator
AllLines == << <<"u1">>,
               <<" ", "u2", " ">>,
               <<" ">>,
               <<"u4">>,
               <<"u3">>,
               <<"%bad">>,
               <<"u5">> >>

Min(a, b) == IF a < b THEN a ELSE b

\* the lines a run with n workers reads: the work of one run is bounded by MaxWork
FileFor(n) == SubSeq(AllLines, 1, Min(Len(AllLines), MaxWork \div n))

RECURSIVE TrimLeft(_)
TrimLeft(s) == IF s # <<>> /\ Head(s) = " " THEN TrimLeft(Tail(s)) ELSE s

RECURSIVE TrimRight(_)
TrimRight(s) == IF s # <<>> /\ s[Len(s)] = " " THEN TrimRight(SubSeq(s, 1, Len(s) - 1)) ELSE s

TrimSpace(s) == TrimRight(TrimLeft(s))

\* mutant of Parseable: the error of extractDomain is not looked at
ParseableAlways(url) == TRUE

\* url.Parse fails on an invalid escape; Hostname() of the parsed locator
Parseable(url) == url # <<"%bad">>

Hostname(url) == IF url \in {<<"u1">>, <<"u2">>, <<"u4">>} THEN "h1" ELSE "h2"

\* the text the extraction yields for a locator's document
ArticleText(url) ==
    CASE url = <<"u1">> -> <<"a", "b", "c", " ", "a", "b", "c", " ", "b", "c", "d", " ", "x", "y", "z", ".">>
      [] url = <<"u2">> -> <<"a", "b", "c", " ", "a", "b", "-", "b", "c", "d", ".">>
      [] url = <<"u3">> -> <<"x", "y", "z", " ", "a", "b", ".">>
      [] url = <<"u4">> -> <<"c", "a", "b", ".", "b", "c", "d", ".">>
      [] OTHER -> <<"a", "b", "c", ".">>

\* wordRegex.FindAllString(text, -1) with `\w+`: the maximal runs of word characters
RECURSIVE FindAll(_, _, _)
FindAll(text, i, cur) ==
    IF i > Len(text)
    THEN IF cur = <<>> THEN <<>> ELSE <<cur>>
    ELSE IF text[i] \in WordChars
         THEN FindAll(text, i + 1, Append(cur, text[i]))
         ELSE (IF cur = <<>> THEN <<>> ELSE <<cur>>) \o FindAll(text, i + 1, <<>>)

FindAllString(text) == FindAll(text, 1, <<>>)

\* the match of `^\w{3,}$` from position i on, n word characters matched so far: \w
\* consumes a word character, $ matches at the end of the text alone
RECURSIVE MatchFrom(_, _, _)
MatchFrom(word, i, n) ==
    IF i > Len(word) THEN n >= 3
    ELSE IF word[i] \in WordChars THEN MatchFrom(word, i + 1, n + 1)
    ELSE FALSE

\* mutant of MatchWord: no pattern, the word bank alone decides
MatchWordAny(word) == TRUE

\* v.wordMatcher.MatchString(word)
MatchWord(word) == MatchFrom(word, 1, 0)

Validate(word) == MatchWord(word) /\ word \in words

Get(m, t) == IF t \in DOMAIN m THEN m[t] ELSE 0

Inc(m, t) == IF t \in DOMAIN m THEN [m EXCEPT ![t] = @ + 1] ELSE m @@ (t :> 1)

RECURSIVE CountTokens(_, _)
CountTokens(tokens, local) ==
    IF tokens = <<>> THEN local
    ELSE CountTokens(Tail(tokens),
                     IF Validate(Head(tokens)) THEN Inc(local, Head(tokens)) ELSE local)

LocalCounts(url) == CountTokens(FindAllString(ArticleText(url)), EmptyMap)

\* mutant of Fold: globalCounts[token] = count
FoldOverwrite(global, partial) ==
    [t \in DOMAIN global \cup DOMAIN partial |->
        IF t \in DOMAIN partial THEN partial[t] ELSE global[t]]

\* globalCounts[token] += count for every entry of partial
Fold(global, partial) ==
    [t \in DOMAIN global \cup DOMAIN partial |-> Get(global, t) + Get(partial, t)]


\* ----------------------------------------------------------- state tuples
feedVars == <<feedPc, feedIdx, feedLine>>
outVars == <<out, outClosed>>
workerVars == <<wpc, wurl, wsem, wres, wlocal>>
semVars == <<domainSemaphores, mu, readers, pools>>
queueVars == <<countsCh, countsClosed>>
counterVars == <<wg, successes, failures>>
mergeVars == <<mpc, mpartial, globalCounts, doneMerge>>
orchVars == <<opc, topCounts>>
histVars == <<delivered, emitted, produced, succeeded, sent, fetchFailed>>
cfgVars == <<rev, workers, topN, words>>
validateVars == <<vpc, vtoken, valid>>
backoffVars == <<bpc, waitMin, waitMax, attemptNum, resp, wait>>
doVars == <<dpc, iter, retryMax, seen, doErr>>
appVars == <<apc, runErr, written, lidx>>
refVars == <<alloc, wref, handed, lateWrite>>
auxVars == <<validateVars, backoffVars, doVars, appVars>>

vars == <<cfgVars, auxVars, refVars, cancelled, feedVars, outVars, workerVars, semVars, queueVars,
          counterVars, mergeVars, orchVars, histVars>>

Workers == 1..workers

File == FileFor(workers)

NoUrl == <<>>

\* make(chan string) in list.go, make(chan string, 1000) in the buffered revision
OutCap == IF rev = "unbuffered" THEN 0 ELSE OutBuf

\* mutant of CountsCap: a queue with room for one partial more
CountsCapLoose == workers * QueueFactor + 1

\* make(chan map[string]int, c.workers*2)
CountsCap == workers * QueueFactor

\* processURL has made no map yet
NoLocals ==
    /\ alloc = 0 /\ wref = [w \in Workers |-> 0]
    /\ handed = {} /\ lateWrite = {}

\* no call of the validator is in progress
ValidateIdle == vpc = "idle" /\ vtoken = <<>> /\ valid = FALSE

NoResp == [status |-> 0, retryAfter |-> <<>>]

\* no call of Backoff is in progress
BackoffIdle ==
    /\ bpc = "idle" /\ waitMin = Second /\ waitMax = Second
    /\ attemptNum = 0 /\ resp = NoResp /\ wait = 0

\* s.client.Do is taken as one step
DoIdle == dpc = "idle" /\ iter = 0 /\ retryMax = 0 /\ seen = <<>> /\ doErr = FALSE

\* App.Run is in its call of CountTopWords
AppCounting ==
    /\ apc = "counting" /\ runErr = "none" /\ written = FALSE
    /\ lidx = Len(BankFile) + 1

AuxIdle == ValidateIdle /\ BackoffIdle /\ DoIdle /\ AppCounting

\* CountTopWords has started its goroutines; the feed's goroutine is running
Started ==
    /\ cancelled = FALSE
    /\ feedPc = "scan" /\ feedIdx = 1 /\ feedLine = NoUrl
    /\ out = <<>> /\ outClosed = FALSE
    /\ wpc = [w \in Workers |-> "select"]
    /\ wurl = [w \in Workers |-> NoUrl]
    /\ wsem = [w \in Workers |-> 0]
    /\ wres = [w \in Workers |-> "none"]
    /\ wlocal = [w \in Workers |-> EmptyMap]
    /\ domainSemaphores = EmptyMap /\ mu = 0 /\ readers = {} /\ pools = <<>>
    /\ countsCh = <<>> /\ countsClosed = FALSE
    /\ wg = workers /\ successes = 0 /\ failures = 0
    /\ mpc = "recv" /\ mpartial = EmptyMap /\ globalCounts = EmptyMap /\ doneMerge = FALSE
    /\ opc = "wait" /\ topCounts = EmptyMap
    /\ delivered = {} /\ emitted = 0 /\ produced = EmptyMap /\ sent = EmptyMap
    /\ succeeded = {}
    /\ fetchFailed = FALSE
    /\ NoLocals

Init ==
    /\ rev \in {"unbuffered", "buffered"}
    /\ workers \in 1..MaxWorkers
    /\ topN = TopN
    /\ words = WordBank
    /\ AuxIdle
    /\ Started

\* the worker pcs with every worker of ws moved to pc `to`
Move(pcs, ws, to) == [w \in DOMAIN pcs |-> IF w \in ws THEN to ELSE pcs[w]]

At(p) == {w \in Workers : wpc[w] = p}


\* ------------------------------------------------- the feed (ListFromFile)
\* return from the goroutine: the deferred close(out) wakes every receiver parked on
\* out, which resumes with ok = false
FeedClose ==
    /\ feedPc' = "closed"
    /\ outClosed' = TRUE
    /\ wpc' = Move(wpc, At("selectParked"), "return")

\* list.go checks ctx.Done() after every Scan; the buffered revision does not
PreCheck == rev = "unbuffered" /\ cancelled

\* scanner.Scan(), the non-blocking check of ctx.Done(), TrimSpace, the blank-line skip
FeedScan ==
    /\ feedPc = "scan"
    /\ IF feedIdx > Len(File) \/ PreCheck
       THEN /\ FeedClose
            /\ UNCHANGED <<feedIdx, feedLine, out>>
       ELSE /\ feedIdx' = feedIdx + 1
            /\ IF TrimSpace(File[feedIdx]) = <<>>
               THEN UNCHANGED <<feedPc, feedLine>>
               ELSE feedPc' = "send" /\ feedLine' = TrimSpace(File[feedIdx])
            /\ UNCHANGED <<out, outClosed, wpc>>
    /\ UNCHANGED <<cfgVars, auxVars, refVars, cancelled, wurl, wsem, wres, wlocal, semVars, queueVars,
                   counterVars, mergeVars, orchVars, histVars>>

\* mutant of FeedSeesDone: a plain out <- line
FeedIgnoresDone == FALSE

\* the ctx.Done() case of the feed's select can proceed
FeedSeesDone == cancelled

\* select { case <-ctx.Done(): return; case out <- line: }
FeedSend ==
    /\ feedPc = "send"
    /\ \/ /\ FeedSeesDone
          /\ FeedClose
          /\ UNCHANGED <<feedIdx, feedLine, out, wurl, histVars>>
       \/ \E w \in At("selectParked") :
             \* a receiver is parked on out: the line is handed to it directly
             /\ wpc' = [wpc EXCEPT ![w] = "lookup"]
             /\ wurl' = [wurl EXCEPT ![w] = feedLine]
             /\ delivered' = delivered \cup {feedLine}
             /\ emitted' = emitted + 1
             /\ feedPc' = "scan"
             /\ UNCHANGED <<feedIdx, feedLine, out, outClosed, produced, succeeded, sent, fetchFailed>>
       \/ /\ At("selectParked") = {}
          /\ Len(out) < OutCap
          /\ out' = Append(out, feedLine)
          /\ emitted' = emitted + 1
          /\ feedPc' = "scan"
          /\ UNCHANGED <<feedIdx, feedLine, outClosed, wpc, wurl, delivered, produced, succeeded, sent,
                         fetchFailed>>
       \/ /\ ~FeedSeesDone
          /\ At("selectParked") = {}
          /\ Len(out) >= OutCap
          /\ feedPc' = "parked"
          /\ UNCHANGED <<feedIdx, feedLine, out, outClosed, wpc, wurl, histVars>>
    /\ UNCHANGED <<cfgVars, auxVars, refVars, cancelled, wsem, wres, wlocal, semVars, queueVars,
                   counterVars, mergeVars, orchVars>>

\* the feed was parked in its select when ctx.Done() was closed: it returns
FeedReturn ==
    /\ feedPc = "return"
    /\ FeedClose
    /\ UNCHANGED <<cfgVars, auxVars, refVars, cancelled, feedIdx, feedLine, out, wurl, wsem, wres, wlocal,
                   semVars, queueVars, counterVars, mergeVars, orchVars, histVars>>


\* ------------------------------------------------------------ the workers
\* return from the worker goroutine: the deferred wg.Done()
WorkerExit(w) ==
    /\ wpc' = [wpc EXCEPT ![w] = "exited"]
    /\ wg' = wg - 1

\* the locator a receive on urlCh yields, and what the receive leaves behind: the head
\* of the buffer (a sender parked on the full buffer then completes its send), or the
\* line of a sender parked on the unbuffered channel
RecvUrl == IF Len(out) > 0 THEN Head(out) ELSE feedLine

OutAfterRecv ==
    IF Len(out) > 0
    THEN IF feedPc = "parked" THEN Append(Tail(out), feedLine) ELSE Tail(out)
    ELSE out

\* select { case <-ctx.Done(): return; case url, ok := <-urlCh: ... }
WorkerSelect(w) ==
    /\ wpc[w] = "select"
    /\ \/ /\ cancelled
          /\ WorkerExit(w)
          /\ UNCHANGED <<feedVars, outVars, wurl, histVars>>
       \/ /\ Len(out) > 0 \/ feedPc = "parked"
          /\ wpc' = [wpc EXCEPT ![w] = "lookup"]
          /\ wurl' = [wurl EXCEPT ![w] = RecvUrl]
          /\ out' = OutAfterRecv
          /\ feedPc' = IF feedPc = "parked" THEN "scan" ELSE feedPc
          /\ delivered' = delivered \cup {RecvUrl}
          /\ emitted' = IF feedPc = "parked" THEN emitted + 1 ELSE emitted
          /\ UNCHANGED <<feedIdx, feedLine, outClosed, wg, produced, succeeded, sent, fetchFailed>>
       \/ /\ Len(out) = 0 /\ outClosed
          /\ WorkerExit(w)
          /\ UNCHANGED <<feedVars, outVars, wurl, histVars>>
       \/ /\ ~cancelled /\ Len(out) = 0 /\ feedPc # "parked" /\ ~outClosed
          /\ wpc' = [wpc EXCEPT ![w] = "selectParked"]
          /\ UNCHANGED <<feedVars, outVars, wurl, wg, histVars>>
    /\ UNCHANGED <<cfgVars, auxVars, refVars, cancelled, wsem, wres, wlocal, semVars, queueVars,
                   successes, failures, mergeVars, orchVars>>

\* a worker woken from its select by the closing of ctx.Done() or of urlCh returns
WorkerReturn(w) ==
    /\ wpc[w] = "return"
    /\ WorkerExit(w)
    /\ UNCHANGED <<cfgVars, auxVars, refVars, cancelled, feedVars, outVars, wurl, wsem, wres, wlocal,
                   semVars, queueVars, successes, failures, mergeVars, orchVars, histVars>>

\* processURL returned to the worker loop: atomic.AddInt64 on successes or failures
WorkerCount(w) ==
    /\ wpc[w] \in {"retTrue", "retFalse"}
    /\ successes' = IF wpc[w] = "retTrue" THEN successes + 1 ELSE successes
    /\ failures' = IF wpc[w] = "retFalse" THEN failures + 1 ELSE failures
    /\ wpc' = [wpc EXCEPT ![w] = "select"]
    /\ wref' = [wref EXCEPT ![w] = 0]
    /\ UNCHANGED <<cfgVars, auxVars, alloc, handed, lateWrite, cancelled, feedVars, outVars,
                   wurl, wsem, wres, wlocal, semVars, queueVars, wg, mergeVars, orchVars,
                   histVars>>

\* --------------------------------------------- the fetch client (Source)
\* mutant of DoubleCheck: no second lookup under the write lock
DoubleCheckMissing(domain) == FALSE

\* the second lookup, under the write lock
DoubleCheck(domain) == domain \in DOMAIN domainSemaphores

Holding(w) == wpc[w] \in {"request", "inflight", "release"}

\* extractDomain, then getDomainSemaphore's s.mu.RLock(), which waits for a writer
FetchLookup(w) ==
    /\ wpc[w] = "lookup"
    /\ \/ /\ ~Parseable(wurl[w])
          /\ wpc' = [wpc EXCEPT ![w] = "retFalse"]
          /\ fetchFailed' = TRUE
          /\ UNCHANGED readers
       \/ /\ Parseable(wurl[w])
          /\ mu = 0
          /\ readers' = readers \cup {w}
          /\ wpc' = [wpc EXCEPT ![w] = "rlocked"]
          /\ UNCHANGED fetchFailed
    /\ UNCHANGED <<cfgVars, auxVars, refVars, cancelled, feedVars, outVars, wurl, wsem, wres,
                   wlocal, domainSemaphores, mu, pools, queueVars, counterVars, mergeVars,
                   orchVars, delivered, emitted, produced, succeeded, sent>>

\* the lookup under the read lock, s.mu.RUnlock(), and the return of the pool found
FetchRead(w) ==
    /\ wpc[w] = "rlocked"
    /\ readers' = readers \ {w}
    /\ IF Hostname(wurl[w]) \in DOMAIN domainSemaphores
       THEN /\ wsem' = [wsem EXCEPT ![w] = domainSemaphores[Hostname(wurl[w])]]
            /\ wpc' = [wpc EXCEPT ![w] = "acquire"]
       ELSE /\ wpc' = [wpc EXCEPT ![w] = "wlock"]
            /\ UNCHANGED wsem
    /\ UNCHANGED <<cfgVars, auxVars, refVars, cancelled, feedVars, outVars, wurl, wres, wlocal,
                   domainSemaphores, mu, pools, queueVars, counterVars, mergeVars, orchVars,
                   histVars>>

\* s.mu.Lock()
FetchLock(w) ==
    /\ wpc[w] = "wlock"
    /\ mu = 0 /\ readers = {}
    /\ mu' = w
    /\ wpc' = [wpc EXCEPT ![w] = "create"]
    /\ UNCHANGED <<cfgVars, auxVars, refVars, cancelled, feedVars, outVars, wurl, wsem, wres, wlocal,
                   domainSemaphores, readers, pools, queueVars, counterVars, mergeVars,
                   orchVars, histVars>>

\* mutant of Unlocked: the write lock is kept until Fetch returns
StillLocked(w) == w

\* defer s.mu.Unlock(): the writer of the lock once getDomainSemaphore has returned
Unlocked(w) == 0

\* under the write lock: the double check, make(chan struct{}, n) pre-filled with n
\* tokens, the registration; then the deferred s.mu.Unlock()
FetchCreate(w) ==
    /\ wpc[w] = "create"
    /\ IF DoubleCheck(Hostname(wurl[w]))
       THEN /\ wsem' = [wsem EXCEPT ![w] = domainSemaphores[Hostname(wurl[w])]]
            /\ UNCHANGED <<pools, domainSemaphores>>
       ELSE /\ pools' = Append(pools, [domain |-> Hostname(wurl[w]),
                                       tokens |-> ConcurrencyPerDomain])
            /\ domainSemaphores' =
                   [d \in DOMAIN domainSemaphores \cup {Hostname(wurl[w])} |->
                       IF d = Hostname(wurl[w]) THEN Len(pools) + 1 ELSE domainSemaphores[d]]
            /\ wsem' = [wsem EXCEPT ![w] = Len(pools) + 1]
    /\ mu' = Unlocked(w)
    /\ wpc' = [wpc EXCEPT ![w] = "acquire"]
    /\ UNCHANGED <<cfgVars, auxVars, refVars, cancelled, feedVars, outVars, wurl, wres, wlocal,
                   readers, queueVars, counterVars, mergeVars, orchVars, histVars>>

\* mutant of PermitAvailable: the acquisition does not wait for a token
PermitAlways(p) == TRUE

\* the receive from sem can proceed: the pool holds a token
PermitAvailable(p) == pools[p].tokens > 0

\* select { case <-ctx.Done(): return "", ctx.Err(); case <-sem: defer release }
FetchAcquire(w) ==
    /\ wpc[w] = "acquire"
    /\ \/ /\ cancelled
          /\ wpc' = [wpc EXCEPT ![w] = "retFalse"]
          /\ fetchFailed' = TRUE
          /\ UNCHANGED pools
       \/ /\ PermitAvailable(wsem[w])
          /\ pools' = [pools EXCEPT ![wsem[w]].tokens = @ - 1]
          /\ wpc' = [wpc EXCEPT ![w] = "request"]
          /\ UNCHANGED fetchFailed
       \/ /\ ~cancelled
          /\ ~PermitAvailable(wsem[w])
          /\ wpc' = [wpc EXCEPT ![w] = "acquireParked"]
          /\ UNCHANGED <<pools, fetchFailed>>
    /\ UNCHANGED <<cfgVars, auxVars, refVars, cancelled, feedVars, outVars, wurl, wsem, wres, wlocal,
                   domainSemaphores, mu, readers, queueVars, counterVars, mergeVars,
                   orchVars, delivered, emitted, produced, succeeded, sent>>

\* s.client.Do(req): a request whose context is already done fails at once
FetchRequest(w) ==
    /\ wpc[w] = "request"
    /\ IF cancelled
       THEN /\ wres' = [wres EXCEPT ![w] = "err"]
            /\ wpc' = [wpc EXCEPT ![w] = "release"]
       ELSE /\ wpc' = [wpc EXCEPT ![w] = "inflight"]
            /\ UNCHANGED wres
    /\ UNCHANGED <<cfgVars, auxVars, refVars, cancelled, feedVars, outVars, wurl, wsem, wlocal, semVars,
                   queueVars, counterVars, mergeVars, orchVars, histVars>>

\* s.client.Do(req) taken as one step, and what Fetch makes of the response: 200 with a
\* body that parses, or any of the failures
FetchResponse(w) ==
    /\ wpc[w] = "inflight"
    /\ dpc = "idle"
    /\ \E r \in {"ok", "err"} : wres' = [wres EXCEPT ![w] = r]
    /\ wpc' = [wpc EXCEPT ![w] = "release"]
    /\ UNCHANGED <<cfgVars, auxVars, refVars, cancelled, feedVars, outVars, wurl, wsem, wlocal, semVars,
                   queueVars, counterVars, mergeVars, orchVars, histVars>>

\* the workers parked in Fetch's select on pool p
Waiters(p) == {v \in Workers : wpc[v] = "acquireParked" /\ wsem[v] = p}

\* mutant of ReleasePools: a return path of Fetch that does not release
ReleasePoolsLeak(w) == pools

\* sem <- struct{}{}: the token goes to a receiver parked on the pool, or back into it
ReleasePools(w) ==
    IF Waiters(wsem[w]) = {} THEN [pools EXCEPT ![wsem[w]].tokens = @ + 1] ELSE pools

\* mutant of AfterFetch: the error of Fetch is not looked at
AfterFetchIgnoresErr(w) ==
    IF DOMAIN LocalCounts(wurl[w]) = {} THEN "retTrue" ELSE "handoff"

\* what processURL makes of Fetch's result
AfterFetch(w) ==
    IF wres[w] = "err" THEN "retFalse"
    ELSE IF DOMAIN LocalCounts(wurl[w]) = {} THEN "retTrue" ELSE "handoff"

\* mutant of NewLocal: one map to a worker, made once and used for every document
OneLocalPerWorker(w) == w

\* local := make(map[string]int): the map made by this call of processURL
NewLocal(w) == alloc + 1

\* Fetch returns: the deferred release of the permit; processURL then counts the
\* validated tokens of the text into local
FetchRelease(w) ==
    /\ wpc[w] = "release"
    /\ pools' = ReleasePools(w)
    /\ \E v \in Waiters(wsem[w]) \cup {0} :
          /\ v = 0 <=> Waiters(wsem[w]) = {}
          /\ wpc' = [x \in Workers |-> IF x = w THEN AfterFetch(w)
                                       ELSE IF x = v THEN "request" ELSE wpc[x]]
    /\ wlocal' = [wlocal EXCEPT ![w] = IF wres[w] = "ok" THEN LocalCounts(wurl[w]) ELSE EmptyMap]
    /\ produced' = IF wres[w] = "ok" THEN Fold(produced, LocalCounts(wurl[w])) ELSE produced
    /\ succeeded' = IF wres[w] = "ok" THEN succeeded \cup {wurl[w]} ELSE succeeded
    /\ fetchFailed' = (fetchFailed \/ wres[w] = "err")
    /\ wres' = [wres EXCEPT ![w] = "none"]
    /\ alloc' = IF wres[w] = "ok" THEN alloc + 1 ELSE alloc
    /\ wref' = [wref EXCEPT ![w] = IF wres[w] = "ok" THEN NewLocal(w) ELSE 0]
    /\ lateWrite' = IF wres[w] = "ok" /\ DOMAIN LocalCounts(wurl[w]) # {}
                       /\ NewLocal(w) \in handed
                    THEN lateWrite \cup {NewLocal(w)} ELSE lateWrite
    /\ UNCHANGED <<cfgVars, auxVars, handed, cancelled, feedVars, outVars, wurl, wsem, domainSemaphores,
                   mu, readers, queueVars, counterVars, mergeVars, orchVars, delivered,
                   emitted, sent>>


\* ------------------------------------------------ handoff and merge stage
\* the ctx.Done() case of processURL's select can proceed
HandoffSeesDone == cancelled

\* select { case <-ctx.Done(): return true; case countsCh <- local: return true }
Handoff(w) ==
    /\ wpc[w] = "handoff"
    /\ \/ /\ HandoffSeesDone
          /\ wpc' = [wpc EXCEPT ![w] = "retTrue"]
          /\ UNCHANGED <<countsCh, mpc, mpartial, sent, handed>>
       \/ /\ mpc = "parked"
          \* the merge goroutine is parked on countsCh: local is handed to it directly
          /\ mpc' = "fold"
          /\ mpartial' = wlocal[w]
          /\ sent' = Fold(sent, wlocal[w])
          /\ handed' = handed \cup {wref[w]}
          /\ wpc' = [wpc EXCEPT ![w] = "retTrue"]
          /\ UNCHANGED countsCh
       \/ /\ mpc # "parked"
          /\ Len(countsCh) < CountsCap
          /\ countsCh' = Append(countsCh, wlocal[w])
          /\ sent' = Fold(sent, wlocal[w])
          /\ handed' = handed \cup {wref[w]}
          /\ wpc' = [wpc EXCEPT ![w] = "retTrue"]
          /\ UNCHANGED <<mpc, mpartial>>
       \/ /\ ~HandoffSeesDone
          /\ mpc # "parked"
          /\ Len(countsCh) >= CountsCap
          /\ wpc' = [wpc EXCEPT ![w] = "handoffParked"]
          /\ UNCHANGED <<countsCh, mpc, mpartial, sent, handed>>
    /\ UNCHANGED <<cfgVars, auxVars, alloc, wref, lateWrite, cancelled, feedVars, outVars, wurl, wsem, wres, wlocal,
                   semVars, countsClosed, counterVars, globalCounts, doneMerge, orchVars,
                   delivered, emitted, produced, succeeded, fetchFailed>>

\* for partial := range countsCh: one receive, or the end of the range and
\* close(doneMerge); a sender parked on the full queue completes its send
MergeRecv ==
    /\ mpc = "recv"
    /\ \/ /\ Len(countsCh) > 0
          /\ mpartial' = Head(countsCh)
          /\ mpc' = "fold"
          /\ \E v \in At("handoffParked") \cup {0} :
                /\ v = 0 <=> At("handoffParked") = {}
                /\ countsCh' = IF v = 0 THEN Tail(countsCh)
                               ELSE Append(Tail(countsCh), wlocal[v])
                /\ sent' = IF v = 0 THEN sent ELSE Fold(sent, wlocal[v])
                /\ handed' = IF v = 0 THEN handed ELSE handed \cup {wref[v]}
                /\ wpc' = IF v = 0 THEN wpc ELSE [wpc EXCEPT ![v] = "retTrue"]
          /\ UNCHANGED doneMerge
       \/ /\ Len(countsCh) = 0 /\ countsClosed
          /\ doneMerge' = TRUE
          /\ mpc' = "done"
          /\ UNCHANGED <<mpartial, countsCh, sent, wpc, handed>>
       \/ /\ Len(countsCh) = 0 /\ ~countsClosed
          /\ mpc' = "parked"
          /\ UNCHANGED <<mpartial, countsCh, sent, wpc, doneMerge, handed>>
    /\ UNCHANGED <<cfgVars, auxVars, alloc, wref, lateWrite, cancelled, feedVars, outVars, wurl, wsem, wres, wlocal,
                   semVars, countsClosed, counterVars, globalCounts, orchVars, delivered,
                   emitted, produced, succeeded, fetchFailed>>

\* for token, count := range partial { globalCounts[token] += count }
MergeFold ==
    /\ mpc = "fold"
    /\ globalCounts' = Fold(globalCounts, mpartial)
    /\ mpartial' = EmptyMap
    /\ mpc' = "recv"
    /\ UNCHANGED <<cfgVars, auxVars, refVars, cancelled, feedVars, outVars, workerVars, semVars,
                   queueVars, counterVars, doneMerge, orchVars, histVars>>

\* ------------------------------------------------------- the top-K selector
\* the orders sort.Slice may leave the pairs in: every order of the words with the
\* counts descending (the comparison looks at the count alone)
RECURSIVE Orders(_)
Orders(S) ==
    IF S = {} THEN {<<>>}
    ELSE UNION {{<<x>> \o o : o \in Orders(S \ {x})} : x \in S}

SortedPairs(counts) ==
    {o \in Orders(DOMAIN counts) :
        \A i \in 1..Len(o) : \A j \in 1..Len(o) : i < j => counts[o[i]] >= counts[o[j]]}

\* mutant of Truncate: the pairs are not cut to topN
TruncateNone(pairs, n) == pairs

\* if len(pairs) > topN { pairs = pairs[:topN] }
Truncate(pairs, n) == IF Len(pairs) > n THEN SubSeq(pairs, 1, n) ELSE pairs

\* mutant of EmptyResult: pickTop without its first check
EmptyResultNever(counts, n) == FALSE

\* if topN <= 0 || len(globalCounts) == 0 { return map[string]int{} }
EmptyResult(counts, n) == n <= 0 \/ DOMAIN counts = {}

\* pairs[:topN] with a negative topN: slice bounds out of range, a run-time panic
Panic == <<"panic">> :> 0

\* the mappings pickTop(globalCounts, topN) may return
pickTop(counts, n) ==
    IF EmptyResult(counts, n)
    THEN {EmptyMap}
    ELSE IF n < 0
    THEN {Panic}
    ELSE {[word \in {Truncate(o, n)[i] : i \in 1..Len(Truncate(o, n))} |-> counts[word]] :
             o \in SortedPairs(counts)}

\* ----------------------------------------------------------- CountTopWords
\* mutant of WaitDone: close(countsCh) without wg.Wait()
WaitSkipped == TRUE

\* mutant of MergeDone: the global count read without <-doneMerge
MergeNotAwaited == TRUE

\* wg.Wait()
WaitDone == wg = 0

\* <-doneMerge
MergeDone == doneMerge

OrchWait ==
    /\ opc = "wait"
    /\ WaitDone
    /\ opc' = "close"
    /\ UNCHANGED <<cfgVars, auxVars, refVars, cancelled, feedVars, outVars, workerVars, semVars,
                   queueVars, counterVars, mergeVars, topCounts, histVars>>

\* mutant of OrchClose: CountTopWords waits for the merge without close(countsCh)
OrchNoClose ==
    /\ opc = "close"
    /\ opc' = "waitMerge"
    /\ UNCHANGED <<cfgVars, auxVars, refVars, cancelled, feedVars, outVars, workerVars, semVars,
                   queueVars, counterVars, mergeVars, topCounts, histVars>>

\* close(countsCh): a merge goroutine parked on the empty queue resumes with ok = false
OrchClose ==
    /\ opc = "close"
    /\ countsClosed' = TRUE
    /\ mpc' = IF mpc = "parked" THEN "recv" ELSE mpc
    /\ opc' = "waitMerge"
    /\ UNCHANGED <<cfgVars, auxVars, refVars, cancelled, feedVars, outVars, workerVars, semVars,
                   countsCh, counterVars, mpartial, globalCounts, doneMerge, topCounts,
                   histVars>>

OrchMerged ==
    /\ opc = "waitMerge"
    /\ MergeDone
    /\ opc' = "pickTop"
    /\ UNCHANGED <<cfgVars, auxVars, refVars, cancelled, feedVars, outVars, workerVars, semVars,
                   queueVars, counterVars, mergeVars, topCounts, histVars>>

OrchPickTop ==
    /\ opc = "pickTop"
    /\ topCounts' \in pickTop(globalCounts, topN)
    /\ opc' = "returned"
    /\ UNCHANGED <<cfgVars, auxVars, refVars, cancelled, feedVars, outVars, workerVars, semVars,
                   queueVars, counterVars, mergeVars, histVars>>

\* ------------------------------------------------------------ cancellation
\* mutant of Woken: the selects do not watch ctx.Done()
NotWoken(p) == p

\* the pc a goroutine parked in a select resumes at when ctx.Done() is closed
Woken(p) ==
    CASE p = "selectParked" -> "return"
      [] p = "acquireParked" -> "retFalse"
      [] p = "handoffParked" -> "retTrue"
      [] OTHER -> p

\* cancel(): close(done) completes, with the ctx.Done() case, every select parked on it
Cancel ==
    /\ ~cancelled
    /\ opc # "returned"
    /\ cancelled' = TRUE
    /\ wpc' = [w \in Workers |-> Woken(wpc[w])]
    /\ feedPc' = IF feedPc = "parked" THEN "return" ELSE feedPc
    /\ fetchFailed' = (fetchFailed \/ At("acquireParked") # {})
    /\ UNCHANGED <<cfgVars, auxVars, refVars, feedIdx, feedLine, outVars, wurl, wsem, wres, wlocal,
                   semVars, queueVars, counterVars, mergeVars, orchVars, delivered, emitted,
                   produced, succeeded, sent>>

Next ==
    \/ FeedScan
    \/ FeedSend
    \/ FeedReturn
    \/ \E w \in Workers : WorkerSelect(w)
    \/ \E w \in Workers : WorkerReturn(w)
    \/ \E w \in Workers : WorkerCount(w)
    \/ \E w \in Workers : FetchLookup(w)
    \/ \E w \in Workers : FetchRead(w)
    \/ \E w \in Workers : FetchLock(w)
    \/ \E w \in Workers : FetchCreate(w)
    \/ \E w \in Workers : FetchAcquire(w)
    \/ \E w \in Workers : FetchRequest(w)
    \/ \E w \in Workers : FetchResponse(w)
    \/ \E w \in Workers : FetchRelease(w)
    \/ \E w \in Workers : Handoff(w)
    \/ MergeRecv
    \/ MergeFold
    \/ OrchWait
    \/ OrchClose
    \/ OrchMerged
    \/ OrchPickTop
    \/ Cancel

Spec == Init /\ [][Next]_vars


\* ------------------------------------------- the retry client's Backoff
\* int and time.Duration are 64-bit two's complement words and time.Second is 10^9;
\* here a word has WordBits bits and a second is Second units
MaxInt == 2 ^ (WordBits - 1) - 1

MinInt == -(2 ^ (WordBits - 1))

\* the word an arithmetic result is stored as
Wrap(x) == ((x + 8 * 2 ^ WordBits - MinInt) % 2 ^ WordBits) + MinInt

Digits == <<"0", "1", "2", "3", "4", "5", "6", "7", "8", "9">>

IsDigit(c) == \E d \in 1..10 : Digits[d] = c

DigitVal(c) == (CHOOSE d \in 1..10 : Digits[d] = c) - 1

RECURSIVE Numeral(_, _)
Numeral(s, acc) == IF s = <<>> THEN acc ELSE Numeral(Tail(s), acc * 10 + DigitVal(Head(s)))

\* strconv.Atoi: an optional sign and decimal digits; a syntax error or a value out of
\* the range of int is an error
Atoi(s) ==
    LET signed == s # <<>> /\ Head(s) \in {"-", "+"}
        body == IF signed THEN Tail(s) ELSE s
        n == IF signed /\ Head(s) = "-" THEN -Numeral(body, 0) ELSE Numeral(body, 0)
    IN  IF body = <<>> \/ \E i \in 1..Len(body) : ~IsDigit(body[i])
        THEN [ok |-> FALSE, n |-> 0]
        ELSE IF n > MaxInt \/ n < MinInt
        THEN [ok |-> FALSE, n |-> 0]
        ELSE [ok |-> TRUE, n |-> n]

\* if d > max { return max }; if d < min { return min }; return d
Clamped(d, min, max) == IF d > max THEN max ELSE IF d < min THEN min ELSE d

\* 1 << uint(attemptNum) on an int
ShiftOne(a) == IF a >= WordBits THEN 0 ELSE Wrap(2 ^ a)

\* duration := time.Duration(seconds) * time.Second, clamped
HintBackoff(min, max, seconds) == Clamped(Wrap(seconds * Second), min, max)

\* backoff := time.Duration(1<<uint(attemptNum)) * time.Second, clamped
ExpBackoff(min, max, a) == Clamped(Wrap(ShiftOne(a) * Second), min, max)

\* retryablehttp.DefaultBackoff: the Retry-After of a 503 as it is, otherwise
\* min * 2^attemptNum, computed in floating point and capped at max
DefaultBackoff(min, max, a, r) ==
    IF r.status = 503 /\ Atoi(r.retryAfter).ok /\ Atoi(r.retryAfter).n >= 0
    THEN Wrap(Atoi(r.retryAfter).n * Second)
    ELSE IF min * 2 ^ a > max THEN max ELSE min * 2 ^ a

\* retryClient.Backoff
Backoff(min, max, a, r) ==
    IF r.status = 429
    THEN IF r.retryAfter # <<>> /\ Atoi(r.retryAfter).ok
         THEN HintBackoff(min, max, Atoi(r.retryAfter).n)
         ELSE ExpBackoff(min, max, a)
    ELSE DefaultBackoff(min, max, a, r)

\* the Retry-After headers tried: none, an HTTP date, integers
Hints == {<<>>, <<"d">>, <<"0">>, <<"5">>, <<"-", "5">>, <<"1", "0", "0">>,
          <<"2", "0", "0">>, <<"9", "9", "9">>}

\* the responses Backoff is called with; no response (status 0) has no header
Responses ==
    {r \in [status : {0, 429, 500, 503}, retryAfter : Hints] :
        r.status = 0 => r.retryAfter = <<>>}

Waits == {n * Second : n \in 1..MaxWait}

InitBackoff ==
    /\ rev = "unbuffered"
    /\ workers = 1
    /\ topN = TopN
    /\ words = WordBank
    /\ ValidateIdle
    /\ bpc = "call"
    /\ waitMin \in Waits /\ waitMax \in Waits /\ waitMin <= waitMax
    /\ attemptNum \in 0..MaxAttempt
    /\ resp \in Responses
    /\ wait = 0
    /\ DoIdle /\ AppCounting
    /\ Started

\* wait := c.Backoff(c.RetryWaitMin, c.RetryWaitMax, i, resp)
CallBackoff ==
    /\ bpc = "call"
    /\ wait' = Backoff(waitMin, waitMax, attemptNum, resp)
    /\ bpc' = "done"
    /\ UNCHANGED <<cfgVars, validateVars, waitMin, waitMax, attemptNum, resp, doVars,
                   appVars, refVars, cancelled,
                   feedVars, outVars, workerVars, semVars, queueVars, counterVars,
                   mergeVars, orchVars, histVars>>

\* Backoff applied to every bound pair, attempt number and response of the bounds
BackoffSpec == InitBackoff /\ [][CallBackoff]_vars

\* ------------------------------------- the retry loop of s.client.Do
\* retryablehttp.DefaultRetryPolicy: nothing is retried once the context is done; a
\* request that got no response is retried, and so are 429 and the 5xx other than 501
DefaultRetryPolicy(r) ==
    IF cancelled THEN FALSE
    ELSE \/ r.status = 0
         \/ r.status = 429
         \/ r.status >= 500 /\ r.status # 501

\* retryClient.CheckRetry
CheckRetry(r) == IF r.status = 429 THEN TRUE ELSE DefaultRetryPolicy(r)

\* mutant of BudgetLeft: the retries are not counted against RetryMax
BudgetAlways == TRUE

\* remain := c.RetryMax - i; if remain <= 0 { break }
BudgetLeft == retryMax - iter > 0

\* the responses a request may get; no response (status 0) has no header
DoResponses ==
    {r \in [status : {0, 200, 404, 429, 500, 501}, retryAfter : {<<>>, <<"5">>}] :
        r.status = 0 => r.retryAfter = <<>>}

\* resp, doErr = c.HTTPClient.Do(req.Request); a request whose context is done gets no
\* response
DoAttempt ==
    /\ dpc = "attempt"
    /\ \E r \in DoResponses :
          /\ cancelled => r.status = 0
          /\ resp' = r
          /\ seen' = Append(seen, r.status)
    /\ dpc' = "check"
    /\ UNCHANGED <<cfgVars, validateVars, bpc, waitMin, waitMax, attemptNum, wait, iter,
                   retryMax, doErr, appVars, refVars, cancelled, feedVars, outVars, workerVars,
                   semVars, queueVars, counterVars, mergeVars, orchVars, histVars>>

\* Do returns the response when there was one, it is not to be retried and CheckRetry
\* gave no error (it gives ctx.Err() once the context is done); otherwise an error
DoFails == resp.status = 0 \/ CheckRetry(resp) \/ (cancelled /\ resp.status # 429)

\* shouldRetry, checkErr = c.CheckRetry(...); the two breaks of the loop; the call of
\* Backoff
DoCheck ==
    /\ dpc = "check"
    /\ IF CheckRetry(resp) /\ BudgetLeft
       THEN /\ dpc' = "backoff"
            /\ bpc' = "call"
            /\ attemptNum' = iter
            /\ UNCHANGED doErr
       ELSE /\ dpc' = "returned"
            /\ doErr' = DoFails
            /\ UNCHANGED <<bpc, attemptNum>>
    /\ UNCHANGED <<cfgVars, validateVars, waitMin, waitMax, resp, wait, iter, retryMax,
                   seen, appVars, refVars, cancelled, feedVars, outVars, workerVars, semVars,
                   queueVars, counterVars, mergeVars, orchVars, histVars>>

\* select { case <-req.Context().Done(): return nil, ctx.Err(); case <-timer.C: }
DoSleep ==
    /\ dpc = "backoff"
    /\ bpc = "done"
    /\ \/ /\ cancelled
          /\ dpc' = "returned"
          /\ doErr' = TRUE
          /\ UNCHANGED iter
       \/ /\ dpc' = "attempt"
          /\ iter' = iter + 1
          /\ UNCHANGED doErr
    /\ bpc' = "idle"
    /\ UNCHANGED <<cfgVars, validateVars, waitMin, waitMax, attemptNum, resp, wait,
                   retryMax, seen, appVars, refVars, cancelled, feedVars, outVars, workerVars,
                   semVars, queueVars, counterVars, mergeVars, orchVars, histVars>>

\* what Fetch makes of Do's result: an error, a status other than 200, or a body that
\* is read and parsed, or not
FetchAfterDo(w) ==
    /\ wpc[w] = "inflight"
    /\ dpc = "returned"
    /\ \E r \in {"ok", "err"} :
          /\ (doErr \/ resp.status # 200) => r = "err"
          /\ wres' = [wres EXCEPT ![w] = r]
    /\ wpc' = [wpc EXCEPT ![w] = "release"]
    /\ UNCHANGED <<cfgVars, auxVars, refVars, cancelled, feedVars, outVars, wurl, wsem, wlocal,
                   semVars, queueVars, counterVars, mergeVars, orchVars, histVars>>

\* one worker is in Fetch for the first locator of the list, at s.client.Do(req), the
\* permit of the locator's domain acquired
InDo ==
    /\ cancelled = FALSE
    /\ feedPc = "scan" /\ feedIdx = 2 /\ feedLine = TrimSpace(AllLines[1])
    /\ out = <<>> /\ outClosed = FALSE
    /\ wpc = [w \in Workers |-> "inflight"]
    /\ wurl = [w \in Workers |-> TrimSpace(AllLines[1])]
    /\ wsem = [w \in Workers |-> 1]
    /\ wres = [w \in Workers |-> "none"]
    /\ wlocal = [w \in Workers |-> EmptyMap]
    /\ domainSemaphores = [d \in {Hostname(TrimSpace(AllLines[1]))} |-> 1]
    /\ mu = 0 /\ readers = {}
    /\ pools = <<[domain |-> Hostname(TrimSpace(AllLines[1])),
                  tokens |-> ConcurrencyPerDomain - 1]>>
    /\ countsCh = <<>> /\ countsClosed = FALSE
    /\ wg = workers /\ successes = 0 /\ failures = 0
    /\ mpc = "recv" /\ mpartial = EmptyMap /\ globalCounts = EmptyMap /\ doneMerge = FALSE
    /\ opc = "wait" /\ topCounts = EmptyMap
    /\ delivered = {TrimSpace(AllLines[1])} /\ emitted = 1
    /\ produced = EmptyMap /\ sent = EmptyMap /\ succeeded = {}
    /\ fetchFailed = FALSE
    /\ NoLocals

InitRetry ==
    /\ rev = "unbuffered"
    /\ workers = 1
    /\ topN = TopN
    /\ words = WordBank
    /\ ValidateIdle /\ AppCounting
    /\ bpc = "idle" /\ waitMin = Second /\ waitMax = MaxWait * Second
    /\ attemptNum = 0 /\ resp = NoResp /\ wait = 0
    /\ dpc = "attempt" /\ iter = 0 /\ seen = <<>> /\ doErr = FALSE
    /\ retryMax \in 0..MaxRetry
    /\ InDo

RetryNext ==
    \/ DoAttempt
    \/ DoCheck
    \/ CallBackoff
    \/ DoSleep
    \/ \E w \in Workers : FetchAfterDo(w)
    \/ \E w \in Workers : FetchRelease(w)
    \/ Cancel

\* one Fetch from its s.client.Do(req) to its return, for every RetryMax of the bounds
\* and every sequence of responses
RetrySpec == InitRetry /\ [][RetryNext]_vars

\* ------------------------------------------------- pickTop on its own
\* the tokens a global count can hold: the words the validator accepts
Accepted == {w \in WordBank : MatchWord(w)}

\* the global counts of up to MaxCount occurrences
CountMaps == UNION {[S -> 1..MaxCount] : S \in SUBSET Accepted}

\* CountTopWords at its call of pickTop: the workers have exited, the merge goroutine
\* has drained the closed queue
Merged ==
    /\ cancelled = FALSE
    /\ feedPc = "closed" /\ feedIdx = 1 /\ feedLine = NoUrl
    /\ out = <<>> /\ outClosed = TRUE
    /\ wpc = [w \in Workers |-> "exited"]
    /\ wurl = [w \in Workers |-> NoUrl]
    /\ wsem = [w \in Workers |-> 0]
    /\ wres = [w \in Workers |-> "none"]
    /\ wlocal = [w \in Workers |-> EmptyMap]
    /\ domainSemaphores = EmptyMap /\ mu = 0 /\ readers = {} /\ pools = <<>>
    /\ countsCh = <<>> /\ countsClosed = TRUE
    /\ wg = 0 /\ successes = 0 /\ failures = 0
    /\ mpc = "done" /\ mpartial = EmptyMap /\ doneMerge = TRUE
    /\ opc = "pickTop" /\ topCounts = EmptyMap
    /\ delivered = {} /\ emitted = 0 /\ succeeded = {}
    /\ produced = globalCounts /\ sent = globalCounts
    /\ fetchFailed = FALSE
    /\ NoLocals

InitPick ==
    /\ rev = "unbuffered"
    /\ workers = 1
    /\ topN \in -1..(TopN + 1)
    /\ words = WordBank
    /\ AuxIdle
    /\ globalCounts \in CountMaps
    /\ Merged

\* pickTop applied to every global count and every topN of the bounds
PickSpec == InitPick /\ [][OrchPickTop]_vars

\* ------------------------------------------------- Validate on its own
\* the characters of the tokens tried: word characters and one that is none
TokenChars == {"a", "b", "-"}

RECURSIVE Strings(_)
Strings(n) ==
    IF n = 0 THEN {<<>>}
    ELSE Strings(n - 1) \cup {Append(t, c) : t \in Strings(n - 1), c \in TokenChars}

\* the words the word banks tried are made of
BankWords == {<<"a", "b">>, <<"a", "b", "a">>, <<"a", "-", "b">>, <<"a", "b", "a", "b">>}

InitValidate ==
    /\ rev = "unbuffered"
    /\ workers = 1
    /\ topN = TopN
    /\ words \in SUBSET BankWords
    /\ vpc = "call" /\ vtoken \in Strings(MaxTokenLen) /\ valid = FALSE
    /\ BackoffIdle /\ DoIdle /\ AppCounting
    /\ Started

\* c.validator.Validate(token)
CallValidate ==
    /\ vpc = "call"
    /\ valid' = Validate(vtoken)
    /\ vpc' = "done"
    /\ UNCHANGED <<cfgVars, vtoken, backoffVars, doVars, appVars, refVars, cancelled, feedVars, outVars, workerVars, semVars,
                   queueVars, counterVars, mergeVars, orchVars, histVars>>

\* Validate applied to every token and every word bank of the bounds
ValidateSpec == InitValidate /\ [][CallValidate]_vars

\* ------------------------------------------------ runs without cancellation
FeedStep == FeedScan \/ FeedSend

WorkerStep(w) ==
    \/ WorkerSelect(w)
    \/ WorkerReturn(w)
    \/ WorkerCount(w)
    \/ FetchLookup(w)
    \/ FetchRead(w)
    \/ FetchLock(w)
    \/ FetchCreate(w)
    \/ FetchAcquire(w)
    \/ FetchRequest(w)
    \/ FetchResponse(w)
    \/ FetchRelease(w)
    \/ Handoff(w)

MergeStep == MergeRecv \/ MergeFold

OrchStep == OrchWait \/ OrchClose \/ OrchMerged \/ OrchPickTop

\* every step of the program but the cancellation
DrainNext ==
    \/ FeedStep
    \/ \E w \in Workers : WorkerStep(w)
    \/ MergeStep
    \/ OrchStep

\* while some goroutine can take a step, the scheduler runs one; every Scan of the
\* feed's file returns and every request is answered, being steps like the others.
\* Fairness to each goroutine by itself implies this condition
DrainFair == WF_vars(DrainNext)

\* the runs whose context is never cancelled
DrainSpec == Init /\ [][DrainNext]_vars /\ DrainFair

\* ------------------------------------- concurrent Fetch calls on one Source
\* one worker more than the runs of the pipeline have
Callers == MaxWorkers + 1

\* the locator of caller w: the first two of one host, the third of another
LockUrl(w) ==
    CASE w = 1 -> <<"u1">>
      [] w = 2 -> <<"u2">>
      [] w = 3 -> <<"u3">>
      [] OTHER -> <<"u5">>

\* every worker has received a locator of the list and is about to call Fetch; the
\* list is read to its end and its channel closed
InFetchAll ==
    /\ cancelled = FALSE
    /\ feedPc = "closed" /\ feedIdx = Len(File) + 1 /\ feedLine = NoUrl
    /\ out = <<>> /\ outClosed = TRUE
    /\ wpc = [w \in Workers |-> "lookup"]
    /\ wurl = [w \in Workers |-> LockUrl(w)]
    /\ wsem = [w \in Workers |-> 0]
    /\ wres = [w \in Workers |-> "none"]
    /\ wlocal = [w \in Workers |-> EmptyMap]
    /\ domainSemaphores = EmptyMap /\ mu = 0 /\ readers = {} /\ pools = <<>>
    /\ countsCh = <<>> /\ countsClosed = FALSE
    /\ wg = workers /\ successes = 0 /\ failures = 0
    /\ mpc = "recv" /\ mpartial = EmptyMap /\ globalCounts = EmptyMap /\ doneMerge = FALSE
    /\ opc = "wait" /\ topCounts = EmptyMap
    /\ delivered = {LockUrl(w) : w \in Workers} /\ emitted = workers
    /\ produced = EmptyMap /\ sent = EmptyMap /\ succeeded = {}
    /\ fetchFailed = FALSE
    /\ NoLocals

InitLock ==
    /\ rev = "unbuffered"
    /\ workers = Callers
    /\ topN = TopN
    /\ words = WordBank
    /\ AuxIdle
    /\ InFetchAll

LockNext ==
    \/ \E w \in Workers : FetchLookup(w)
    \/ \E w \in Workers : FetchRead(w)
    \/ \E w \in Workers : FetchLock(w)
    \/ \E w \in Workers : FetchCreate(w)
    \/ \E w \in Workers : FetchAcquire(w)
    \/ \E w \in Workers : FetchRequest(w)
    \/ \E w \in Workers : FetchResponse(w)
    \/ \E w \in Workers : FetchRelease(w)
    \/ Cancel

\* the Fetch calls of the workers, each from its first statement to its return
LockSpec == InitLock /\ [][LockNext]_vars

\* ------------------------------------------------------------- App.Run
\* Run has not yet called ListFromFile or CountTopWords: no goroutine exists
Unstarted ==
    /\ cancelled = FALSE
    /\ feedPc = "unstarted" /\ feedIdx = 1 /\ feedLine = NoUrl
    /\ out = <<>> /\ outClosed = FALSE
    /\ wpc = [w \in Workers |-> "unstarted"]
    /\ wurl = [w \in Workers |-> NoUrl]
    /\ wsem = [w \in Workers |-> 0]
    /\ wres = [w \in Workers |-> "none"]
    /\ wlocal = [w \in Workers |-> EmptyMap]
    /\ domainSemaphores = EmptyMap /\ mu = 0 /\ readers = {} /\ pools = <<>>
    /\ countsCh = <<>> /\ countsClosed = FALSE
    /\ wg = 0 /\ successes = 0 /\ failures = 0
    /\ mpc = "unstarted" /\ mpartial = EmptyMap /\ globalCounts = EmptyMap /\ doneMerge = FALSE
    /\ opc = "unstarted" /\ topCounts = EmptyMap
    /\ delivered = {} /\ emitted = 0 /\ produced = EmptyMap /\ sent = EmptyMap
    /\ succeeded = {}
    /\ fetchFailed = FALSE
    /\ NoLocals

InitApp ==
    /\ rev \in {"unbuffered", "buffered"}
    /\ workers \in 1..MaxWorkers
    /\ topN = TopN
    /\ words = {}
    /\ ValidateIdle /\ BackoffIdle /\ DoIdle
    /\ apc = "open" /\ runErr = "none" /\ written = FALSE /\ lidx = 1
    /\ Unstarted

\* mutant of ReturnOnError: the error is dropped and Run goes on
ErrorIgnored(next) == next

\* if err != nil { return fmt.Errorf(...) }: where Run is after a failed step
ReturnOnError(next) == "returned"

\* wordbank.Load: os.Open(filePath) fails or yields the file
LoadOpen ==
    /\ apc = "open"
    /\ \/ apc' = "scan" /\ UNCHANGED runErr
       \/ apc' = ReturnOnError("list") /\ runErr' = "load"
    /\ UNCHANGED <<cfgVars, validateVars, backoffVars, doVars, written, lidx, refVars, cancelled,
                   feedVars, outVars, workerVars, semVars, queueVars, counterVars,
                   mergeVars, orchVars, histVars>>

\* wordbank.Load: one turn of for scanner.Scan() { ... }, or the end of the loop with
\* scanner.Err(); Load returns a nil map with every error
LoadScan ==
    /\ apc = "scan"
    /\ \/ /\ lidx <= Len(BankFile) /\ ~cancelled
          /\ words' = IF TrimSpace(BankFile[lidx]) = <<>> THEN words
                       ELSE words \cup {TrimSpace(BankFile[lidx])}
          /\ lidx' = lidx + 1
          /\ UNCHANGED <<apc, runErr>>
       \/ /\ lidx <= Len(BankFile) /\ cancelled
          /\ words' = {}
          /\ apc' = ReturnOnError("list") /\ runErr' = "load"
          /\ UNCHANGED lidx
       \/ /\ words' = {}
          /\ apc' = ReturnOnError("list") /\ runErr' = "load"
          /\ UNCHANGED lidx
       \/ /\ lidx > Len(BankFile)
          /\ apc' = "list"
          /\ UNCHANGED <<words, runErr, lidx>>
    /\ UNCHANGED <<rev, workers, topN, validateVars, backoffVars, doVars, written, refVars, cancelled,
                   feedVars, outVars, workerVars, semVars, queueVars, counterVars,
                   mergeVars, orchVars, histVars>>

\* articles.ListFromFile: os.Open fails, or the goroutine that feeds urlCh is started
RunList ==
    /\ apc = "list"
    /\ \/ /\ apc' = "count" /\ feedPc' = "scan"
          /\ UNCHANGED runErr
       \/ /\ apc' = ReturnOnError("count") /\ runErr' = "list"
          /\ UNCHANGED feedPc
    /\ UNCHANGED <<cfgVars, validateVars, backoffVars, doVars, written, lidx, refVars, cancelled,
                   feedIdx, feedLine, outVars, workerVars, semVars, queueVars, counterVars,
                   mergeVars, orchVars, histVars>>

\* NewValidator, NewCounter and the start of CountTopWords: the workers and the merge
\* goroutine are started, CountTopWords is at wg.Wait()
RunCount ==
    /\ apc = "count"
    /\ apc' = "counting"
    /\ wpc' = [w \in Workers |-> "select"]
    /\ wg' = workers
    /\ mpc' = "recv"
    /\ opc' = "wait"
    /\ UNCHANGED <<cfgVars, validateVars, backoffVars, doVars, runErr, written, lidx, refVars, cancelled,
                   feedVars, outVars, wurl, wsem, wres, wlocal, semVars, queueVars,
                   successes, failures, mpartial, globalCounts, doneMerge, topCounts,
                   histVars>>

\* CountTopWords returned (its error is always nil): encoder.Encode(topCounts) writes
\* to out, or the writer fails
RunEncode ==
    /\ apc = "counting" /\ opc = "returned"
    /\ apc' = "returned"
    /\ \/ written' = TRUE /\ UNCHANGED runErr
       \/ runErr' = "encode" /\ UNCHANGED written
    /\ UNCHANGED <<cfgVars, validateVars, backoffVars, doVars, lidx, refVars, cancelled,
                   feedVars, outVars, workerVars, semVars, queueVars, counterVars,
                   mergeVars, orchVars, histVars>>

AppNext ==
    \/ LoadOpen
    \/ LoadScan
    \/ RunList
    \/ RunCount
    \/ RunEncode
    \/ Next

\* a whole run of the application, from App.Run's first statement
AppSpec == InitApp /\ [][AppNext]_vars

\* a Scan of the list, which may block on its file for ever
IsScan == feedPc = "scan" /\ <<feedPc, feedIdx>>' # <<feedPc, feedIdx>>

\* the scheduler runs every goroutine that can take a step: fairness for every step
\* but the cancellation and the Scan
FairSpec == Spec /\ WF_vars(Next /\ cancelled' = cancelled /\ ~IsScan)

\* the program with list.go's ListFromFile; its list is a file whose every Scan
\* returns, and its context carries a deadline (context.WithTimeout)
InitList == Init /\ rev = "unbuffered"

ListSpec == InitList /\ [][Next]_vars /\ WF_vars(Next)

\* ------------------------------------------------------------------ claims
AllExited == \A w \in Workers : wpc[w] = "exited"

\* the occurrences of token in text: the maximal runs of word characters equal to it
RunStart(text, i) == text[i] \in WordChars /\ (i = 1 \/ text[i - 1] \notin WordChars)

RunStop(text, j) == text[j] \in WordChars /\ (j = Len(text) \/ text[j + 1] \notin WordChars)

Occurrences(text, token) ==
    Cardinality({i \in 1..Len(text) :
        /\ RunStart(text, i)
        /\ i + Len(token) - 1 <= Len(text)
        /\ SubSeq(text, i, i + Len(token) - 1) = token
        /\ RunStop(text, i + Len(token) - 1)})

RECURSIVE SumOver(_, _)
SumOver(urls, token) ==
    IF urls = {} THEN 0
    ELSE LET u == CHOOSE x \in urls : TRUE
         IN Occurrences(ArticleText(u), token) + SumOver(urls \ {u}, token)

\* every token some document holds, and every word of the vocabulary
Tokens ==
    WordBank \cup UNION {{FindAllString(ArticleText(TrimSpace(AllLines[i])))[k] :
                          k \in 1..Len(FindAllString(ArticleText(TrimSpace(AllLines[i]))))} :
                      i \in 1..Len(AllLines)}

\* C1: when cancellation has not fired and no Fetch failed, the global count of every
\* token, once the merge stage has terminated, is the sum over the delivered locators of
\* the token's validator-accepted occurrences in the locator's text
C1_GlobalCountIsSum ==
    (doneMerge /\ ~cancelled /\ ~fetchFailed) =>
        \A t \in Tokens \cup DOMAIN globalCounts :
            Get(globalCounts, t) = IF Validate(t) THEN SumOver(delivered, t) ELSE 0

C1_Witness ==
    /\ opc = "returned" /\ ~cancelled /\ ~fetchFailed /\ workers = 2
    /\ Cardinality(delivered) = 2
    /\ Get(globalCounts, <<"a", "b", "c">>) = 3

\* C2 (as claimed): every partial a worker has built is in the global count when
\* CountTopWords returns
C2_NoPartialDropped == opc = "returned" => globalCounts = produced

\* C3: every partial sent into the handoff queue is folded into the global count when
\* CountTopWords reads it and when it returns
C3_SentIsMerged == opc \in {"pickTop", "returned"} => globalCounts = sent

C3_Witness ==
    /\ opc = "returned" /\ cancelled
    /\ sent # EmptyMap /\ sent # produced /\ globalCounts = sent

\* C4: the handoff queue is closed only after every worker has exited, and the global
\* count is read only after the merge goroutine has drained the queue and closed doneMerge
C4_Barrier ==
    /\ countsClosed => AllExited
    /\ opc \in {"pickTop", "returned"} =>
          doneMerge /\ mpc = "done" /\ countsCh = <<>> /\ countsClosed

C4_Witness == opc = "returned" /\ workers = 2 /\ sent # EmptyMap /\ mpc = "done"

\* the Fetch calls that hold a permit of the origin
InFlight(domain) == {w \in Workers : Holding(w) /\ Hostname(wurl[w]) = domain}

Domains == {Hostname(TrimSpace(AllLines[i])) : i \in 1..Len(AllLines)}

\* C5: at most ConcurrencyPerDomain Fetch calls of one origin hold a permit
C5_InFlightCapped == \A d \in Domains : Cardinality(InFlight(d)) <= ConcurrencyPerDomain

C5_Witness ==
    \E w \in Workers : \E v \in Workers :
        /\ Holding(w) /\ wpc[v] = "acquireParked"
        /\ Hostname(wurl[w]) = Hostname(wurl[v])

Holders(p) == {w \in Workers : Holding(w) /\ wsem[w] = p}

InFetch(w) == wpc[w] \in {"lookup", "rlocked", "wlock", "create", "acquire", "acquireParked"} \/ Holding(w)

\* C6: the permits in a pool plus the Fetch calls holding one of its permits are the
\* pool's capacity, and the pool is full once every Fetch has returned
C6_PermitsConserved ==
    \A p \in 1..Len(pools) :
        /\ pools[p].tokens + Cardinality(Holders(p)) = ConcurrencyPerDomain
        /\ (\A w \in Workers : ~InFetch(w)) => pools[p].tokens = ConcurrencyPerDomain

C6_Witness ==
    /\ opc = "returned" /\ cancelled /\ failures > 0 /\ successes > 0
    /\ pools # <<>>
    /\ \A p \in 1..Len(pools) : pools[p].tokens = ConcurrencyPerDomain

\* C7: an origin has one permit pool, the registry names it, and every Fetch of the
\* origin got that pool
C7_OnePoolPerOrigin ==
    /\ \A p \in 1..Len(pools) : \A q \in 1..Len(pools) :
          pools[p].domain = pools[q].domain => p = q
    /\ \A p \in 1..Len(pools) :
          pools[p].domain \in DOMAIN domainSemaphores /\ domainSemaphores[pools[p].domain] = p
    /\ \A w \in Workers :
          (wpc[w] \in {"acquire", "acquireParked"} \/ Holding(w)) =>
              /\ Hostname(wurl[w]) \in DOMAIN domainSemaphores
              /\ wsem[w] = domainSemaphores[Hostname(wurl[w])]

\* a second first call reaches the write lock after the pool was created
C7_Witness ==
    \E w \in Workers : wpc[w] = "create" /\ DoubleCheck(Hostname(wurl[w]))

PoolsFull == \A p \in 1..Len(pools) : pools[p].tokens = ConcurrencyPerDomain

\* C8: once cancellation has fired every worker exits, CountTopWords returns and no
\* permit stays held, also when the feed never gets to close its channel
C8_CancelTerminates == cancelled ~> (opc = "returned" /\ AllExited /\ PoolsFull)

\* CountTopWords has returned after a cancellation that left lines of the list unread
\* and the feed's channel open
C8_Witness ==
    /\ opc = "returned" /\ cancelled /\ AllExited /\ PoolsFull
    /\ feedPc = "scan" /\ feedIdx <= Len(File) /\ ~outClosed
    /\ failures > 0

\* C9 (as claimed): no worker receives a locator once cancellation has fired
C9_NoPullAfterCancel == [][cancelled => delivered' = delivered]_vars

CountsFailure(w) == wpc[w] = "retFalse" /\ wpc'[w] # "retFalse"

\* C11: a failed Fetch is counted as one failure, adds nothing to the handoff queue or
\* the global count, and the worker goes back to its select; once the workers have
\* exited the successes are the locators whose Fetch succeeded and the failures the
\* other delivered ones; without cancellation the global count is the sum of the
\* validated occurrences over the documents whose Fetch succeeded
C11_FailureSkipsDocument ==
    /\ [][\A w \in Workers : CountsFailure(w) =>
              /\ failures' = failures + 1 /\ successes' = successes
              /\ wpc'[w] = "select"
              /\ <<countsCh, sent, globalCounts>>' = <<countsCh, sent, globalCounts>>]_vars
    /\ [](AllExited => /\ successes = Cardinality(succeeded)
                       /\ failures = Cardinality(delivered \ succeeded))
    /\ []((opc = "returned" /\ ~cancelled) =>
              \A t \in Tokens \cup DOMAIN globalCounts :
                  Get(globalCounts, t) = IF Validate(t) THEN SumOver(succeeded, t) ELSE 0)

\* a run without cancellation returned counts after both failed and successful fetches
C11_Witness ==
    /\ opc = "returned" /\ ~cancelled
    /\ failures > 0 /\ successes > 0
    /\ delivered \ succeeded # {} /\ globalCounts # EmptyMap

\* the tokens of counts that are not in r
Excluded(counts, r) == DOMAIN counts \ DOMAIN r

\* C12: for topN >= 1 the result of pickTop has min(topN, distinct tokens) entries, each
\* a token of the global count with its count, and no retained count is below an
\* excluded one
C12_TopNSelection ==
    (opc = "returned" /\ topN >= 1) =>
        /\ Cardinality(DOMAIN topCounts) = Min(topN, Cardinality(DOMAIN globalCounts))
        /\ DOMAIN topCounts \subseteq DOMAIN globalCounts
        /\ \A t \in DOMAIN topCounts : topCounts[t] = globalCounts[t]
        /\ \A t \in DOMAIN topCounts : \A u \in Excluded(globalCounts, topCounts) :
              topCounts[t] >= globalCounts[u]

\* a result that leaves out a token with a smaller count and one with an equal count
C12_Witness ==
    /\ opc = "returned" /\ topN = 1
    /\ Cardinality(DOMAIN globalCounts) = 3
    /\ \E t \in DOMAIN topCounts :
          /\ \E u \in Excluded(globalCounts, topCounts) : globalCounts[u] < topCounts[t]
          /\ \E u \in Excluded(globalCounts, topCounts) : globalCounts[u] = topCounts[t]

\* C13: pickTop returns the empty mapping when topN <= 0 and when the global count is
\* empty
C13_EmptyResult ==
    (opc = "returned" /\ (topN <= 0 \/ globalCounts = EmptyMap)) => topCounts = EmptyMap

C13_Witness ==
    /\ opc = "returned" /\ topN < 0
    /\ Cardinality(DOMAIN globalCounts) = 2 /\ topCounts = EmptyMap

\* C14 (as claimed): any two evaluations of pickTop on the same global count and topN
\* return the same mapping: the one that returned topCounts and any other
C14_Deterministic ==
    opc = "returned" => \A r \in pickTop(globalCounts, topN) : r = topCounts

\* C15: Validate returns true exactly for the tokens of at least 3 characters, all of
\* them word characters, that are in the word bank, whatever the word bank
C15_ValidateIff ==
    vpc = "done" =>
        (valid <=> /\ Len(vtoken) >= 3
                   /\ \A i \in 1..Len(vtoken) : vtoken[i] \in WordChars
                   /\ vtoken \in words)

\* a word of the bank rejected for a character that is no word character
C15_Witness ==
    /\ vpc = "done" /\ ~valid
    /\ vtoken \in words /\ Len(vtoken) >= 3

\* the value of a decimal numeral
RECURSIVE Value(_)
Value(s) == IF s = <<>> THEN 0 ELSE 10 * Value(SubSeq(s, 1, Len(s) - 1)) + DigitVal(s[Len(s)])

\* the Retry-After header is an integer that strconv.Atoi parses
HintParses ==
    /\ resp.retryAfter # <<>>
    /\ \A i \in 1..Len(resp.retryAfter) : IsDigit(resp.retryAfter[i])
    /\ Value(resp.retryAfter) <= MaxInt

\* C16 (as claimed): for a 429 with an integer retry hint h the delay is h seconds
\* clamped to [waitMin, waitMax], for every attempt number
C16_HintClamped ==
    (bpc = "done" /\ resp.status = 429 /\ HintParses) =>
        wait = Clamped(Value(resp.retryAfter) * Second, waitMin, waitMax)

\* C17 (as claimed): for a 429 without a parseable retry hint the delay is
\* 2^attemptNum seconds clamped to [waitMin, waitMax]
C17_ExponentialClamped ==
    (bpc = "done" /\ resp.status = 429 /\ resp.retryAfter \in {<<>>, <<"d">>}) =>
        wait = Clamped(2 ^ attemptNum * Second, waitMin, waitMax)

\* every request of the Fetch was answered with 429
All429 == seen # <<>> /\ \A k \in 1..Len(seen) : seen[k] = 429

\* s.client.Do has returned and Fetch with it
FetchReturned == dpc = "returned" /\ \A w \in Workers : wpc[w] \notin {"inflight", "release"}

C19_NoRetryOnOtherStatus ==
    (seen # <<>> /\ seen[1] \notin {0, 200, 429}) =>
        Len(seen) = 1 /\ dpc \in {"check", "returned"}

\* no goroutine of the run exists and nothing was fetched
NothingStarted ==
    /\ feedPc = "unstarted" /\ mpc = "unstarted" /\ opc = "unstarted"
    /\ \A w \in Workers : wpc[w] = "unstarted" /\ wurl[w] = NoUrl
    /\ delivered = {} /\ succeeded = {} /\ produced = EmptyMap
    /\ domainSemaphores = EmptyMap /\ pools = <<>>
    /\ ~fetchFailed

\* C20: when wordbank.Load or ListFromFile fails, App.Run has returned the error with
\* no worker started, no Fetch called and nothing written to out; and whenever a
\* worker runs, no step of Run failed and the validator holds the whole word bank
C20_ConfigErrorFatal ==
    /\ runErr \in {"load", "list"} =>
          apc = "returned" /\ NothingStarted /\ ~written
    /\ (\E w \in Workers : wpc[w] # "unstarted") =>
          runErr \in {"none", "encode"} /\ words = WordBank /\ lidx = Len(BankFile) + 1
    /\ written => runErr = "none"

\* Load failed after it had read part of the word bank, and Run returned
C20_Witness == runErr = "load" /\ apc = "returned" /\ lidx > 2 /\ ~cancelled

\* a step that changes the global count is the merge goroutine's fold of the partial it
\* received, and a step that changes a worker's partial is that worker's own counting
OnlyWriters ==
    /\ globalCounts' # globalCounts =>
          /\ mpc = "fold" /\ mpc' = "recv"
          /\ globalCounts' = Fold(globalCounts, mpartial)
          /\ wpc' = wpc
    /\ \A w \in Workers :
          wlocal'[w] # wlocal[w] =>
             /\ wpc[w] = "release"
             /\ \A v \in Workers \ {w} : wlocal'[v] = wlocal[v] /\ wpc'[v] \in {wpc[v], "request"}
             /\ globalCounts' = globalCounts /\ countsCh' = countsCh /\ mpartial' = mpartial

\* no two workers refer to the same map
Unshared == \A w, v \in Workers : w # v /\ wref[w] # 0 => wref[w] # wref[v]

\* a worker that still refers to a map it handed off is on its way out of processURL
HandedIsLeft == \A w \in Workers : wref[w] \in handed => wpc[w] = "retTrue"

\* C21: globalCounts is changed only by the merge goroutine's fold; a worker changes
\* only its own partial; no map is referred to by two workers; no worker writes to a
\* map after handing it off
C21_SingleWriter ==
    /\ [][OnlyWriters]_vars
    /\ [](Unshared /\ HandedIsLeft /\ lateWrite = {})

\* a worker holds a new partial while one it handed off earlier is still queued and
\* the merge goroutine has already folded another
C21_Witness ==
    /\ \E w \in Workers : wref[w] # 0 /\ wref[w] \notin handed /\ wlocal[w] # EmptyMap
    /\ handed # {} /\ Len(countsCh) > 0
    /\ globalCounts # EmptyMap

\* the locator of the list that url.Parse rejects
BadLocator == <<"%bad">>

\* worker w is in Fetch past extractDomain
PastParse(w) ==
    wpc[w] \in {"rlocked", "wlock", "create", "acquire", "acquireParked", "request",
                "inflight", "release"}

\* the step Fetch takes for a locator that does not parse: it returns the error and
\* leaves the registry, its lock, the pools and the worker's pool reference alone
FailsAtParse ==
    \A w \in Workers :
       wpc[w] = "lookup" /\ wurl[w] = BadLocator /\ wpc'[w] # wpc[w] =>
          /\ wpc'[w] = "retFalse"
          /\ fetchFailed'
          /\ UNCHANGED <<domainSemaphores, mu, readers, pools, wsem, wres>>
          /\ \A v \in Workers \ {w} : wpc'[v] = wpc[v]

\* C22: for a locator that cannot be parsed Fetch returns a failure at once; the
\* worker never looks up, creates, acquires or releases a pool for it and issues no
\* request, and the registry and the pools are as they were
C22_ParseFailureTouchesNothing ==
    /\ [][FailsAtParse]_vars
    /\ [](\A w \in Workers : wurl[w] = BadLocator => ~PastParse(w) /\ wpc[w] # "handoff")
    /\ [](BadLocator \notin succeeded)

\* Fetch has failed on the locator that does not parse while the registry holds a pool
\* and the failure is counted
C22_Witness ==
    /\ \E w \in Workers : wurl[w] = BadLocator /\ wpc[w] = "select"
    /\ pools # <<>> /\ failures > 0 /\ ~cancelled

\* the workers that hold the partial of a fetched document or are returning with it
Succeeding == {w \in Workers : wpc[w] \in {"handoff", "handoffParked", "retTrue"}}

\* a worker in processURL's select leaves it by the send of its partial or by
\* cancellation, and returns true
SendOrCancel ==
    \A w \in Workers :
       wpc[w] \in {"handoff", "handoffParked"} /\ wpc'[w] # wpc[w] =>
          /\ wpc'[w] \in {"handoffParked", "retTrue"}
          /\ wpc'[w] = "retTrue" =>
                \/ cancelled'
                \/ /\ handed' = handed \cup {wref[w]}
                   /\ \/ countsCh' # <<>> /\ countsCh'[Len(countsCh')] = wlocal[w]
                      \/ mpc = "parked" /\ mpartial' = wlocal[w]
          /\ wurl'[w] = wurl[w] /\ delivered' = delivered

\* C23: the queue never holds more than 2*W partials; a worker whose send finds the
\* queue full stays in processURL, pulling no locator, until the send completes or
\* the cancellation is seen; an empty partial is never queued or merged, and its
\* document counts as a success all the same
C23_BoundedQueue ==
    /\ [][SendOrCancel]_vars
    /\ [](Len(countsCh) <= 2 * workers)
    /\ [](\A w \in Workers : wpc[w] = "handoffParked" =>
              wlocal[w] # EmptyMap /\ (cancelled \/ Len(countsCh) = 2 * workers))
    /\ [](\A k \in 1..Len(countsCh) : countsCh[k] # EmptyMap)
    /\ [](mpc = "fold" => mpartial # EmptyMap)
    /\ [](\A w \in Workers : wpc[w] \in {"handoff", "handoffParked"} => wlocal[w] # EmptyMap)
    /\ [](successes + Cardinality(Succeeding) = Cardinality(succeeded))

\* a worker with a partial is parked on the full queue
C23_Witness ==
    /\ Len(countsCh) = 2 * workers
    /\ \E w \in Workers : wpc[w] = "handoffParked" /\ wlocal[w] # EmptyMap
    /\ ~cancelled

\* worker w is in Fetch at the acquisition of a permit, with a permit, or at its release
AtPermit(w) == wpc[w] \in {"acquire", "acquireParked"} \/ Holding(w)

\* a step in which a worker leaves the acquisition or the release leaves the lock and
\* the registry as they are
PermitStepKeepsLock ==
    (\E w \in Workers : AtPermit(w) /\ wpc'[w] # wpc[w]) =>
        UNCHANGED <<mu, readers, domainSemaphores>>

\* who waits for the lock waits for a reader or the writer, never for a permit
LockWaitsOnHolderOnly ==
    /\ \A w \in Workers :
          wpc[w] = "lookup" /\ ~ENABLED FetchLookup(w) => mu # 0
    /\ \A w \in Workers :
          wpc[w] = "wlock" /\ ~ENABLED FetchLock(w) => mu # 0 \/ readers # {}

\* who holds the lock is inside getDomainSemaphore and can take its next step
HolderNeverBlocked ==
    /\ mu # 0 => wpc[mu] = "create" /\ ENABLED FetchCreate(mu)
    /\ \A w \in readers : wpc[w] = "rlocked" /\ ENABLED FetchRead(w)

\* C24: a Fetch at the acquisition of a permit, holding one or releasing one holds
\* Source.mu neither as reader nor as writer, and the acquisition and the release do
\* not touch the lock; whoever holds the lock is in getDomainSemaphore and is never
\* blocked, so a Fetch that waits for the lock never waits for a permit
C24_NoLockAroundPermits ==
    /\ [][PermitStepKeepsLock]_vars
    /\ [](\A w \in Workers : AtPermit(w) => mu # w /\ w \notin readers)
    /\ []HolderNeverBlocked
    /\ []LockWaitsOnHolderOnly

\* a Fetch is parked on the saturated pool of one origin while a Fetch for another
\* origin holds the write lock and creates its pool
C24_Witness ==
    \E w \in Workers : \E v \in Workers :
       /\ wpc[w] = "acquireParked" /\ pools[wsem[w]].tokens = 0
       /\ wpc[v] = "create" /\ mu = v
       /\ Hostname(wurl[v]) # Hostname(wurl[w])
       /\ Hostname(wurl[v]) \notin DOMAIN domainSemaphores

\* C25: in a run without cancellation, under fair scheduling, every worker exits, the
\* merge goroutine ends and CountTopWords returns
C25_Terminates == <>(AllExited /\ mpc = "done" /\ doneMerge /\ opc = "returned")

\* the run has ended after more partials were handed off than the queue has room for
C25_Witness ==
    /\ AllExited /\ mpc = "done" /\ opc = "returned" /\ ~cancelled
    /\ Cardinality(handed) > CountsCap
    /\ feedPc = "closed" /\ emitted = Cardinality(delivered)
    /\ globalCounts = produced


====
